---- MODULE Spec2Model ----
(***************************************************************************)
(* Model of scripts/privacy-obfuscation-controller.py: the Ryu application *)
(* PrivacyObfuscationController.  The state is the controller's per-switch *)
(* packet counter, the dispatcher each datapath is in, the event handled   *)
(* last, the messages the handler of that event sent with                  *)
(* datapath.send_msg, in order, the outcomes it drew from the random       *)
(* source and the records it wrote to self.logger.  threads holds the      *)
(* handlers of packet-ins that run at the same time, where a runtime       *)
(* dispatches them so: each is at a line of should_obfuscate;              *)
(* counter_at_start is the counter of their switch before the first ran.   *)
(***************************************************************************)
EXTENDS Integers, Sequences, FiniteSets, TLC

VARIABLES packet_counter, dispatcher, ev, sent, first_sent, rand, logged,
          threads, counter_at_start

vars == <<packet_counter, dispatcher, ev, sent, first_sent, rand, logged,
          threads, counter_at_start>>

(***************************************************************************)
(* Bounds of the model.                                                    *)
(***************************************************************************)
\* packet-ins counted on switch 1 before the model stops counting there
MaxCounter == 101
\* the same for every other switch
MaxCounterOther == 1

\* entries of the longest flow-stats reply
MaxStats == 11

DPIDs == {1, 2}
\* the handlers that may run at the same time
Threads == {1, 2}
\* the counter values of switch 1 at which they are started; 0: no entry yet
StartCounters == {0, 98, 99}
InPorts == {1, 2}
BufferIds == {"OFP_NO_BUFFER", "buffer_7"}
\* TCP destination ports offered: one unclassified and the three classified
DstPorts == {22, 80, 443, 8080}
\* outcomes of random.randint(0x00, 0xff) offered for each free octet
MacOctets == {0, 255}
\* reasons of a port-status message
PortReasons == {"OFPPR_ADD", "OFPPR_DELETE", "OFPPR_MODIFY"}
\* priorities of the entries of a flow-stats reply: the two the controller installs
StatPriorities == {0, 1}

(***************************************************************************)
(* Program constants.                                                      *)
(***************************************************************************)
obfuscation_interval == 100
ETH_TYPE_ARP == 2054
ETH_TYPE_IP == 2048
IPPROTO_TCP == 6
\* an ethertype that is neither ARP nor IPv4 (IPv6, 0x86dd)
EtherTypes == {ETH_TYPE_ARP, ETH_TYPE_IP, 34525}

(***************************************************************************)
(* Parsed packets: what packet.Packet(msg.data) yields for the handler.    *)
(* ip_pkt and tcp_pkt say whether get_protocol finds the header; dst_port  *)
(* is read only when tcp_pkt holds.  An ARP frame carries neither header,  *)
(* a frame of ethertype IPv4 reaches TCP only through its IPv4 header, a   *)
(* frame of another ethertype (IPv6) carries TCP without an IPv4 header.   *)
(***************************************************************************)
Packets ==
    { p \in [ethertype : EtherTypes, ip_pkt : BOOLEAN, tcp_pkt : BOOLEAN,
             dst_port : DstPorts \cup {0}] :
        /\ p.tcp_pkt <=> (p.dst_port # 0)
        /\ (p.ethertype = ETH_TYPE_ARP) => (~p.ip_pkt /\ ~p.tcp_pkt)
        /\ (p.ethertype = ETH_TYPE_IP) => p.ip_pkt
        /\ (p.ethertype \notin {ETH_TYPE_ARP, ETH_TYPE_IP}) => ~p.ip_pkt }

(***************************************************************************)
(* OpenFlow actions and messages built by the handlers.                    *)
(***************************************************************************)
OFPActionOutput(port, max_len) ==
    [type |-> "OFPActionOutput", port |-> port, max_len |-> max_len]

OFPActionSetField(field, value) ==
    [type |-> "OFPActionSetField", field |-> field, value |-> value]

\* OFPMatch(**kwargs): the set of <<field, value>> pairs; {} matches anything
OFPMatch(fields) == fields

OFPPacketOut(datapath, buffer_id, in_port, actions, data) ==
    [type |-> "OFPPacketOut", datapath |-> datapath, buffer_id |-> buffer_id,
     in_port |-> in_port, actions |-> actions, data |-> data]

\* add_flow without buffer_id: the OFPFlowMod it sends
add_flow(datapath, priority, table_id, match, actions) ==
    [type |-> "OFPFlowMod", datapath |-> datapath, priority |-> priority,
     table_id |-> table_id, match |-> match,
     instructions |-> <<[type |-> "OFPIT_APPLY_ACTIONS", actions |-> actions]>>]

(***************************************************************************)
(* ObfuscationPolicy.                                                      *)
(***************************************************************************)
HexDigits == <<"0", "1", "2", "3", "4", "5", "6", "7",
               "8", "9", "a", "b", "c", "d", "e", "f">>

\* "%02x" % x for x in 0..255: the two characters
Hex02(x) == <<HexDigits[(x \div 16) + 1], HexDigits[(x % 16) + 1]>>

\* variant: the group bit set in the first octet
generate_random_mac_GroupBit(r4, r5, r6) ==
    LET mac == <<3, 0, 0, r4, r5, r6>>
    IN  [i \in 1..6 |-> Hex02(mac[i])]

\* the six ':'-joined groups of the address, r4..r6 the three randint results
generate_random_mac(r4, r5, r6) ==
    LET mac == <<2, 0, 0, r4, r5, r6>>
    IN  [i \in 1..6 |-> Hex02(mac[i])]

Max(a, b) == IF a >= b THEN a ELSE b
Min(a, b) == IF a <= b THEN a ELSE b

base_values == {64, 128, 255}
Variances == (0 - 2)..2

\* variant: the sum is returned as it is
get_random_ttl_NoClamp(base, variance) == base + variance

get_random_ttl(base, variance) == Max(1, Min(255, base + variance))

\* variant: one counter shared by the switches seen so far
CounterIncremented_Shared(pc, dpid) ==
    [d \in DOMAIN pc \cup {dpid} |-> (IF d \in DOMAIN pc THEN pc[d] ELSE 0) + 1]

\* variant: the counter starts over when it reaches the interval
CounterIncremented_StartOver(pc, dpid) ==
    [d \in DOMAIN pc \cup {dpid} |->
        IF d # dpid THEN pc[d]
        ELSE IF d \in DOMAIN pc THEN (pc[d] + 1) % obfuscation_interval ELSE 1]

\* packet_counter after lines 91-94 of should_obfuscate(dpid)
CounterIncremented(pc, dpid) ==
    LET pc0 == IF dpid \in DOMAIN pc THEN pc ELSE pc @@ (dpid :> 0)
    IN  [pc0 EXCEPT ![dpid] = @ + 1]

\* variant: the check is made on the counter as it was before the increment
should_obfuscate_BeforeIncrement(pc, dpid) ==
    (pc[dpid] - 1) % obfuscation_interval = 0

\* the value should_obfuscate(dpid) returns, pc the counter it has incremented
should_obfuscate(pc, dpid) == pc[dpid] % obfuscation_interval = 0

(***************************************************************************)
(* FlowClassifier and the steps of packet_in_handler.                      *)
(***************************************************************************)
\* service classification
classify(pkt) ==
    IF pkt.tcp_pkt
    THEN IF pkt.dst_port = 80 THEN 1
         ELSE IF pkt.dst_port = 443 THEN 2
         ELSE IF pkt.dst_port = 8080 THEN 3
         ELSE 0
    ELSE 0

\* variant: every classified service is a candidate
ObfuscationCandidate_AnyService(pkt, service_id) == service_id > 0 /\ pkt.ip_pkt

\* variant: every IPv4 packet is a candidate
ObfuscationCandidate_AnyIp(pkt, service_id) == pkt.ip_pkt

\* the guard under which should_obfuscate is called
ObfuscationCandidate(pkt, service_id) == service_id \in {1, 2} /\ pkt.ip_pkt

\* variant: hop limit first
ObfuscationActions_TtlFirst(new_mac, new_ttl) ==
    <<OFPActionSetField("ip_ttl", new_ttl), OFPActionSetField("eth_src", new_mac)>>

\* variant: a generated hop limit of 64 is not written
ObfuscationActions_SkipDefaultTtl(new_mac, new_ttl) ==
    IF new_ttl = 64
    THEN <<OFPActionSetField("eth_src", new_mac)>>
    ELSE <<OFPActionSetField("eth_src", new_mac), OFPActionSetField("ip_ttl", new_ttl)>>

\* the actions appended when should_obfuscate returned True
ObfuscationActions(new_mac, new_ttl) ==
    <<OFPActionSetField("eth_src", new_mac), OFPActionSetField("ip_ttl", new_ttl)>>

\* variant: the destination is rewritten without looking for an IPv4 header
RoutingActions_NoIpCheck(pkt, service_id) ==
    IF service_id = 1 THEN <<OFPActionSetField("ipv4_dst", "172.16.0.10")>>
    ELSE IF service_id = 2 THEN <<OFPActionSetField("ipv4_dst", "172.16.0.20")>>
    ELSE IF service_id = 3 THEN <<OFPActionSetField("ipv4_dst", "172.16.0.30")>>
    ELSE <<>>

\* service-based routing
RoutingActions(pkt, service_id) ==
    IF service_id = 1
    THEN IF pkt.ip_pkt THEN <<OFPActionSetField("ipv4_dst", "172.16.0.10")>> ELSE <<>>
    ELSE IF service_id = 2
    THEN IF pkt.ip_pkt THEN <<OFPActionSetField("ipv4_dst", "172.16.0.20")>> ELSE <<>>
    ELSE IF service_id = 3
    THEN IF pkt.ip_pkt THEN <<OFPActionSetField("ipv4_dst", "172.16.0.30")>> ELSE <<>>
    ELSE <<>>

\* output to appropriate port
OutputActions == <<OFPActionOutput("OFPP_FLOOD", "OFPCML_MAX")>>

\* what one obfuscation draws from the random source: three randint octets,
\* one random.choice and one randint variance, in this order
RandomDraws ==
    MacOctets \X MacOctets \X MacOctets \X base_values \X Variances

\* the action list of a non-ARP packet-in, rnd the outcomes drawn
PacketInActions(pkt, service_id, obfuscate, rnd) ==
    (IF obfuscate
     THEN ObfuscationActions(generate_random_mac(rnd[1], rnd[2], rnd[3]),
                             get_random_ttl(rnd[4], rnd[5]))
     ELSE <<>>)
    \o RoutingActions(pkt, service_id) \o OutputActions

\* variant: the service class is not looked at
InstallsFlow_AnyTcp(pkt, service_id) == pkt.tcp_pkt

\* the guard of the flow installation
InstallsFlow(pkt, service_id) == pkt.tcp_pkt /\ service_id > 0

FlowMatch(in_port, pkt) ==
    OFPMatch({<<"in_port", in_port>>, <<"eth_type", ETH_TYPE_IP>>,
              <<"ip_proto", IPPROTO_TCP>>, <<"tcp_dst", pkt.dst_port>>})

\* variant: the bytes are sent along with a buffer reference too
PacketOutData_Always(buffer_id, pkt) == <<pkt>>

\* data of the packet-out: msg.data when the event is not buffered, else None
PacketOutData(buffer_id, pkt) ==
    IF buffer_id = "OFP_NO_BUFFER" THEN <<pkt>> ELSE <<>>

\* variant: the packet's bytes are left out
handle_arp_NoData(datapath, in_port, pkt) ==
    <<OFPPacketOut(datapath, "OFP_NO_BUFFER", in_port,
                   <<OFPActionOutput("OFPP_FLOOD", "OFPCML_MAX")>>, <<>>)>>

\* the messages handle_arp sends
handle_arp(datapath, in_port, pkt) ==
    <<OFPPacketOut(datapath, "OFP_NO_BUFFER", in_port,
                   <<OFPActionOutput("OFPP_FLOOD", "OFPCML_MAX")>>, <<pkt>>)>>

\* variant: the packet is emitted only when no rule is installed
PacketInMessages_RuleOrPacket(dpid, in_port, pkt, buffer_id, service_id, actions) ==
    IF pkt.tcp_pkt /\ service_id > 0
    THEN <<add_flow(dpid, 1, 0,
                    OFPMatch({<<"in_port", in_port>>, <<"eth_type", ETH_TYPE_IP>>,
                              <<"ip_proto", IPPROTO_TCP>>,
                              <<"tcp_dst", pkt.dst_port>>}), actions)>>
    ELSE <<OFPPacketOut(dpid, buffer_id, in_port, actions,
                        IF buffer_id = "OFP_NO_BUFFER" THEN <<pkt>> ELSE <<>>)>>

\* variant: the packet is emitted before the rule is installed
PacketInMessages_PacketFirst(dpid, in_port, pkt, buffer_id, service_id, actions) ==
    <<OFPPacketOut(dpid, buffer_id, in_port, actions,
                   IF buffer_id = "OFP_NO_BUFFER" THEN <<pkt>> ELSE <<>>)>>
    \o (IF pkt.tcp_pkt /\ service_id > 0
        THEN <<add_flow(dpid, 1, 0,
                        OFPMatch({<<"in_port", in_port>>, <<"eth_type", ETH_TYPE_IP>>,
                                  <<"ip_proto", IPPROTO_TCP>>,
                                  <<"tcp_dst", pkt.dst_port>>}), actions)>>
        ELSE <<>>)

\* the messages packet_in_handler sends for a non-ARP packet
PacketInMessages(dpid, in_port, pkt, buffer_id, service_id, actions) ==
    (IF InstallsFlow(pkt, service_id)
     THEN <<add_flow(dpid, 1, 0, FlowMatch(in_port, pkt), actions)>>
     ELSE <<>>)
    \o <<OFPPacketOut(dpid, buffer_id, in_port, actions,
                      PacketOutData(buffer_id, pkt))>>

\* variant: the table-miss rule at the priority of the service rules
TableMissFlow_Priority1(dpid) ==
    <<add_flow(dpid, 1, 0, OFPMatch({}),
               <<OFPActionOutput("OFPP_CONTROLLER", "OFPCML_NO_BUFFER")>>)>>

\* the messages switch_features_handler sends
TableMissFlow(dpid) ==
    <<add_flow(dpid, 0, 0, OFPMatch({}),
               <<OFPActionOutput("OFPP_CONTROLLER", "OFPCML_NO_BUFFER")>>)>>

(***************************************************************************)
(* Observability: what the handlers log, and the flow-stats report.        *)
(***************************************************************************)
\* one call of self.logger: the level, the text and the values formatted in
LogRecord(level, text, args) == [level |-> level, text |-> text, args |-> args]

\* the debug records of an obfuscation
ObfuscationLog(obfuscate, rnd) ==
    IF obfuscate
    THEN <<LogRecord("debug", "Obfuscating packet: MAC",
                     <<generate_random_mac(rnd[1], rnd[2], rnd[3])>>),
           LogRecord("debug", "Obfuscating packet: TTL",
                     <<get_random_ttl(rnd[4], rnd[5])>>)>>
    ELSE <<>>

\* the record port_status_handler writes for a reason
PortStatusLog(reason, port_no) ==
    IF reason = "OFPPR_ADD" THEN <<LogRecord("info", "Port added", <<port_no>>)>>
    ELSE IF reason = "OFPPR_DELETE"
    THEN <<LogRecord("info", "Port deleted", <<port_no>>)>>
    ELSE IF reason = "OFPPR_MODIFY"
    THEN <<LogRecord("info", "Port modified", <<port_no>>)>>
    ELSE <<>>

\* the replies offered, of up to n entries: entry i has packet_count i, so
\* that entries of one priority can be told apart
ReplyBodies(n) ==
    UNION { { [i \in 1..k |-> [match |-> OFPMatch({}), priority |-> f[i],
                               packet_count |-> i, byte_count |-> 64 * i,
                               duration_sec |-> 1]] :
                f \in [1..k -> StatPriorities] } : k \in 0..n }

\* stat put into a list sorted by descending priority, behind its equals
RECURSIVE InsertByPriority(_, _)
InsertByPriority(stat, sorted) ==
    IF sorted = <<>> THEN <<stat>>
    ELSE IF sorted[1].priority >= stat.priority
    THEN <<sorted[1]>> \o InsertByPriority(stat, Tail(sorted))
    ELSE <<stat>> \o sorted

RECURSIVE SortedFrom(_, _)
SortedFrom(body, sorted) ==
    IF body = <<>> THEN sorted
    ELSE SortedFrom(Tail(body), InsertByPriority(body[1], sorted))

\* variant: reverse=True left out
RECURSIVE InsertByPriority_Ascending(_, _)
InsertByPriority_Ascending(stat, sorted) ==
    IF sorted = <<>> THEN <<stat>>
    ELSE IF sorted[1].priority <= stat.priority
    THEN <<sorted[1]>> \o InsertByPriority_Ascending(stat, Tail(sorted))
    ELSE <<stat>> \o sorted

RECURSIVE SortedFrom_Ascending(_, _)
SortedFrom_Ascending(body, sorted) ==
    IF body = <<>> THEN sorted
    ELSE SortedFrom_Ascending(Tail(body), InsertByPriority_Ascending(body[1], sorted))

SortedByPriority_Ascending(body) == SortedFrom_Ascending(body, <<>>)

\* sorted(body, key=lambda s: s.priority, reverse=True): a stable sort
SortedByPriority(body) == SortedFrom(body, <<>>)

\* stats[:10]
FirstTen(stats) == SubSeq(stats, 1, Min(10, Len(stats)))

\* the two header records and the rule under them
StatsHeader ==
    <<LogRecord("info", "Flow statistics received:", <<>>),
      LogRecord("info", "%-20s %-10s %-10s %-10s",
                <<"Match", "Packets", "Bytes", "Duration">>),
      LogRecord("info", "%-20s %-10s %-10s %-10s",
                <<"-----", "-------", "-----", "--------">>)>>

\* the record written for one entry
StatLine(stat) ==
    LogRecord("info", "%-20s %-10d %-10d %-10d",
              <<stat.match, stat.packet_count, stat.byte_count, stat.duration_sec>>)

\* ev.msg.body once the handler has returned: sorted() copies, body is as it was
BodyAfterReport(body) == body

\* all the handler of a flow-stats reply logs
StatsReport(body) ==
    LET reported == FirstTen(SortedByPriority(body))
    IN  StatsHeader \o [i \in 1..Len(reported) |-> StatLine(reported[i])]

(***************************************************************************)
(* State machine.                                                          *)
(***************************************************************************)
Counter(pc, dpid) == IF dpid \in DOMAIN pc THEN pc[dpid] ELSE 0

CounterCap(dpid) == IF dpid = 1 THEN MaxCounter ELSE MaxCounterOther

\* datapath.send_msg: msgs go out in order; first_sent keeps, per switch, the
\* first message the switch was ever sent
Send(dpid, msgs) ==
    /\ sent' = msgs
    /\ first_sent' = [first_sent EXCEPT ![dpid] =
                         IF @ = <<>> /\ msgs # <<>> THEN <<msgs[1]>> ELSE @]

\* a handler not running; pc is the line it is at, tmp the counter value it
\* has loaded at line 94, result what should_obfuscate returned to it
IdleThread == [pc |-> "idle", tmp |-> 0, result |-> FALSE]

Init ==
    /\ packet_counter = <<>>
    /\ dispatcher = [d \in DPIDs |-> "CONFIG_DISPATCHER"]
    /\ ev = [type |-> "None"]
    /\ sent = <<>>
    /\ first_sent = [d \in DPIDs |-> <<>>]
    /\ rand = <<>>
    /\ logged = <<LogRecord("info", "Privacy Obfuscation Controller initialized",
                            <<>>)>>
    /\ threads = [t \in Threads |-> IdleThread]
    /\ counter_at_start = 0

\* EventOFPSwitchFeatures, handled in CONFIG_DISPATCHER; the datapath then
\* moves to MAIN_DISPATCHER
switch_features_handler(dpid) ==
    /\ dispatcher[dpid] = "CONFIG_DISPATCHER"
    /\ ev' = [type |-> "EventOFPSwitchFeatures", dpid |-> dpid]
    /\ Send(dpid, TableMissFlow(dpid))
    /\ dispatcher' = [dispatcher EXCEPT ![dpid] = "MAIN_DISPATCHER"]
    /\ rand' = <<>>
    /\ logged' = <<LogRecord("info", "Switch connected", <<dpid>>)>>
    /\ UNCHANGED <<packet_counter, threads, counter_at_start>>

\* EventOFPPacketIn, handled in MAIN_DISPATCHER
packet_in_handler(dpid, in_port, pkt, buffer_id) ==
    /\ dispatcher[dpid] = "MAIN_DISPATCHER"
    /\ ev' = [type |-> "EventOFPPacketIn", dpid |-> dpid, in_port |-> in_port,
              pkt |-> pkt, buffer_id |-> buffer_id]
    /\ IF pkt.ethertype = ETH_TYPE_ARP
       THEN /\ Send(dpid, handle_arp(dpid, in_port, pkt))
            /\ rand' = <<>>
            /\ logged' = <<>>
            /\ UNCHANGED packet_counter
       ELSE LET service_id == classify(pkt)
                candidate == ObfuscationCandidate(pkt, service_id)
                pc1 == IF candidate THEN CounterIncremented(packet_counter, dpid)
                       ELSE packet_counter
                obfuscate == candidate /\ should_obfuscate(pc1, dpid)
            IN  /\ candidate => Counter(packet_counter, dpid) < CounterCap(dpid)
                /\ packet_counter' = pc1
                /\ \E rnd \in (IF obfuscate THEN RandomDraws ELSE { <<>> }) :
                     LET actions == PacketInActions(pkt, service_id, obfuscate, rnd)
                     IN  /\ rand' = rnd
                         /\ logged' = ObfuscationLog(obfuscate, rnd)
                         /\ Send(dpid, PacketInMessages(dpid, in_port, pkt, buffer_id,
                                                        service_id, actions))
    /\ UNCHANGED <<dispatcher, threads, counter_at_start>>

\* EventOFPPortStatus, handled in MAIN_DISPATCHER
port_status_handler(dpid, reason, port_no) ==
    /\ dispatcher[dpid] = "MAIN_DISPATCHER"
    /\ ev' = [type |-> "EventOFPPortStatus", dpid |-> dpid, reason |-> reason,
              port_no |-> port_no]
    /\ logged' = PortStatusLog(reason, port_no)
    /\ Send(dpid, <<>>)
    /\ rand' = <<>>
    /\ UNCHANGED <<packet_counter, dispatcher, threads, counter_at_start>>

\* EventOFPFlowStatsReply, handled in MAIN_DISPATCHER
flow_stats_reply_handler(dpid, body) ==
    /\ dispatcher[dpid] = "MAIN_DISPATCHER"
    /\ ev' = [type |-> "EventOFPFlowStatsReply", dpid |-> dpid, received |-> body,
              body |-> BodyAfterReport(body)]
    /\ logged' = StatsReport(body)
    /\ Send(dpid, <<>>)
    /\ rand' = <<>>
    /\ UNCHANGED <<packet_counter, dispatcher, threads, counter_at_start>>

Next ==
    \/ \E dpid \in DPIDs : switch_features_handler(dpid)
    \/ \E dpid \in DPIDs, in_port \in InPorts, pkt \in Packets, buffer_id \in BufferIds :
          packet_in_handler(dpid, in_port, pkt, buffer_id)
    \/ \E dpid \in DPIDs, reason \in PortReasons, port_no \in InPorts :
          port_status_handler(dpid, reason, port_no)
    \/ \E dpid \in DPIDs, body \in ReplyBodies(1) :
          flow_stats_reply_handler(dpid, body)

Spec == Init /\ [][Next]_vars

\* the first flow-stats reply of a run, of any length up to MaxStats
first_flow_stats_reply(dpid, body) ==
    /\ ev.type # "EventOFPFlowStatsReply"
    /\ flow_stats_reply_handler(dpid, body)

NextStats ==
    \/ \E dpid \in DPIDs : switch_features_handler(dpid)
    \/ \E dpid \in DPIDs, body \in ReplyBodies(MaxStats) :
          first_flow_stats_reply(dpid, body)

\* the controller as it connects its switches and reports one reply
SpecStats == Init /\ [][NextStats]_vars

(***************************************************************************)
(* Packet-ins of one switch handled at the same time.  The handlers of     *)
(* Threads each take the packet-in ConcurrentEvent through line 139 and    *)
(* should_obfuscate, which holds no lock: a step is one read or one write  *)
(* of self.packet_counter.                                                 *)
(***************************************************************************)
ConcurrentEvent ==
    [type |-> "EventOFPPacketIn", dpid |-> 1, in_port |-> 1,
     pkt |-> [ethertype |-> ETH_TYPE_IP, ip_pkt |-> TRUE, tcp_pkt |-> TRUE,
              dst_port |-> 443],
     buffer_id |-> "OFP_NO_BUFFER"]

\* the messages of ConcurrentEvent, obfuscated or not
ConcurrentMessages(obfuscate, rnd) ==
    LET e == ConcurrentEvent
    IN  PacketInMessages(e.dpid, e.in_port, e.pkt, e.buffer_id, classify(e.pkt),
                         PacketInActions(e.pkt, classify(e.pkt), obfuscate, rnd))

\* switch 1 connected and, where c > 0, c packet-ins like ConcurrentEvent handled
InitConcurrent ==
    /\ dispatcher = [d \in DPIDs |-> IF d = ConcurrentEvent.dpid
                                      THEN "MAIN_DISPATCHER" ELSE "CONFIG_DISPATCHER"]
    /\ first_sent = [d \in DPIDs |-> IF d = ConcurrentEvent.dpid
                                      THEN TableMissFlow(d) ELSE <<>>]
    /\ rand = <<>>
    /\ threads = [t \in Threads |-> IdleThread]
    /\ counter_at_start \in StartCounters
    /\ IF counter_at_start = 0
       THEN /\ packet_counter = <<>>
            /\ ev = [type |-> "EventOFPSwitchFeatures", dpid |-> ConcurrentEvent.dpid]
            /\ sent = TableMissFlow(ConcurrentEvent.dpid)
            /\ logged = <<LogRecord("info", "Switch connected",
                                    <<ConcurrentEvent.dpid>>)>>
       ELSE /\ packet_counter = (ConcurrentEvent.dpid :> counter_at_start)
            /\ ev = ConcurrentEvent
            /\ sent = ConcurrentMessages(FALSE, <<>>)
            /\ logged = <<>>

AtLine(t, line) == threads[t].pc = line

GoTo(t, line) == threads' = [threads EXCEPT ![t].pc = line]

\* the handler is dispatched and reaches the call of line 139
thread_start(t) ==
    /\ AtLine(t, "idle")
    /\ GoTo(t, "L91")
    /\ UNCHANGED <<packet_counter, dispatcher, ev, sent, first_sent, rand, logged,
                   counter_at_start>>

\* if dpid not in self.packet_counter
thread_L91(t) ==
    /\ AtLine(t, "L91")
    /\ GoTo(t, IF ConcurrentEvent.dpid \in DOMAIN packet_counter
               THEN "L94_load" ELSE "L92")
    /\ UNCHANGED <<packet_counter, dispatcher, ev, sent, first_sent, rand, logged,
                   counter_at_start>>

\* self.packet_counter[dpid] = 0
thread_L92(t) ==
    /\ AtLine(t, "L92")
    /\ packet_counter' =
          [d \in DOMAIN packet_counter \cup {ConcurrentEvent.dpid} |->
              IF d = ConcurrentEvent.dpid THEN 0 ELSE packet_counter[d]]
    /\ GoTo(t, "L94_load")
    /\ UNCHANGED <<dispatcher, ev, sent, first_sent, rand, logged, counter_at_start>>

\* self.packet_counter[dpid] += 1, the read
thread_L94_load(t) ==
    /\ AtLine(t, "L94_load")
    /\ threads' = [threads EXCEPT ![t].pc = "L94_store",
                                  ![t].tmp = packet_counter[ConcurrentEvent.dpid]]
    /\ UNCHANGED <<packet_counter, dispatcher, ev, sent, first_sent, rand, logged,
                   counter_at_start>>

\* self.packet_counter[dpid] += 1, the write
thread_L94_store(t) ==
    /\ AtLine(t, "L94_store")
    /\ packet_counter' =
          [packet_counter EXCEPT ![ConcurrentEvent.dpid] = threads[t].tmp + 1]
    /\ GoTo(t, "L97")
    /\ UNCHANGED <<dispatcher, ev, sent, first_sent, rand, logged, counter_at_start>>

\* return self.packet_counter[dpid] % self.obfuscation_interval == 0
thread_L97(t) ==
    /\ AtLine(t, "L97")
    /\ threads' = [threads EXCEPT
                      ![t].pc = "L140",
                      ![t].result = should_obfuscate(packet_counter,
                                                     ConcurrentEvent.dpid)]
    /\ UNCHANGED <<packet_counter, dispatcher, ev, sent, first_sent, rand, logged,
                   counter_at_start>>

\* lines 140-187: the rest of the handler, with what should_obfuscate returned
thread_finish(t) ==
    /\ AtLine(t, "L140")
    /\ GoTo(t, "done")
    /\ ev' = ConcurrentEvent
    /\ \E rnd \in (IF threads[t].result THEN RandomDraws ELSE { <<>> }) :
          /\ rand' = rnd
          /\ logged' = ObfuscationLog(threads[t].result, rnd)
          /\ Send(ConcurrentEvent.dpid, ConcurrentMessages(threads[t].result, rnd))
    /\ UNCHANGED <<packet_counter, dispatcher, counter_at_start>>

NextConcurrent ==
    \/ \E t \in Threads : thread_start(t)
    \/ \E t \in Threads : thread_L91(t)
    \/ \E t \in Threads : thread_L92(t)
    \/ \E t \in Threads : thread_L94_load(t)
    \/ \E t \in Threads : thread_L94_store(t)
    \/ \E t \in Threads : thread_L97(t)
    \/ \E t \in Threads : thread_finish(t)

SpecConcurrent == InitConcurrent /\ [][NextConcurrent]_vars

(***************************************************************************)
(* Vocabulary of the properties: the event handled last and what its       *)
(* handler sent.                                                           *)
(***************************************************************************)
IsPacketIn == ev.type = "EventOFPPacketIn"

IsFlowMod(m) == m.type = "OFPFlowMod"
IsPacketOut(m) == m.type = "OFPPacketOut"

FlowModsSent == SelectSeq(sent, IsFlowMod)
PacketOutsSent == SelectSeq(sent, IsPacketOut)

\* the action list a message carries
ActionsOf(m) == IF IsFlowMod(m) THEN m.instructions[1].actions ELSE m.actions

IsSetField(a, field) == a.type = "OFPActionSetField" /\ a.field = field
IsFlood(a) == a = [type |-> "OFPActionOutput", port |-> "OFPP_FLOOD",
                   max_len |-> "OFPCML_MAX"]

\* the action list rewrites the source link address or the hop limit
HasObfuscation(actions) ==
    \E i \in 1..Len(actions) :
        IsSetField(actions[i], "eth_src") \/ IsSetField(actions[i], "ip_ttl")

\* the action list is the pair [source rewrite, hop-limit rewrite] and a rest
StartsWithObfuscationPair(actions) ==
    /\ Len(actions) >= 2
    /\ IsSetField(actions[1], "eth_src")
    /\ IsSetField(actions[2], "ip_ttl")

\* an IPv4 TCP packet to port 80 or 443 (service class HTTP or HTTPS)
IsHttpOverIPv4(pkt) == pkt.ip_pkt /\ pkt.tcp_pkt /\ pkt.dst_port \in {80, 443}

(***************************************************************************)
(* C1.  As stated: every non-ARP packet-in on a switch, whatever its       *)
(* service class and headers, increments that switch's PacketCounter by    *)
(* exactly one.                                                            *)
(***************************************************************************)
C1_CounterPerNonArpPacketIn ==
    [][ (ev'.type = "EventOFPPacketIn" /\ ev'.pkt.ethertype # ETH_TYPE_ARP)
          => Counter(packet_counter', ev'.dpid)
               = Counter(packet_counter, ev'.dpid) + 1 ]_vars

(***************************************************************************)
(* C1, amended.  A packet-in on a switch increments that switch's          *)
(* PacketCounter by exactly one when the packet carries an IPv4 header and *)
(* a TCP header to port 80 or 443, and leaves it unchanged otherwise.      *)
(***************************************************************************)
C1_CounterPerHttpPacketIn ==
    [][ ev'.type = "EventOFPPacketIn"
          => Counter(packet_counter', ev'.dpid)
               = Counter(packet_counter, ev'.dpid)
                 + (IF IsHttpOverIPv4(ev'.pkt) THEN 1 ELSE 0) ]_vars

\* the third HTTP/HTTPS packet-in of a switch has just been counted
C1_Witness ==
    /\ IsPacketIn
    /\ IsHttpOverIPv4(ev.pkt)
    /\ Counter(packet_counter, ev.dpid) = 3

(***************************************************************************)
(* C2.  A packet-in with an IPv4 TCP packet to port 80 or 443 carries the  *)
(* obfuscation pair, in its packet-out and in its rule, exactly when the   *)
(* switch's counter after the increment is a positive multiple of the      *)
(* interval; so the Nth such packet is obfuscated, the (N-1)th and the     *)
(* (N+1)th are not.                                                        *)
(***************************************************************************)
C2_ObfuscateIffMultiple ==
    (IsPacketIn /\ IsHttpOverIPv4(ev.pkt)) =>
        LET c == Counter(packet_counter, ev.dpid)
            due == c > 0 /\ c % 100 = 0
        IN  /\ sent # <<>>
            /\ \A i \in 1..Len(sent) :
                 /\ HasObfuscation(ActionsOf(sent[i])) <=> due
                 /\ StartsWithObfuscationPair(ActionsOf(sent[i])) <=> due
            /\ (c \in {99, 101}) => ~HasObfuscation(ActionsOf(sent[Len(sent)]))
            /\ (c = 100) => HasObfuscation(ActionsOf(sent[Len(sent)]))

\* the 100th HTTP/HTTPS packet of a switch went out obfuscated
C2_Witness ==
    /\ IsPacketIn
    /\ IsHttpOverIPv4(ev.pkt)
    /\ Counter(packet_counter, ev.dpid) = 100
    /\ HasObfuscation(ActionsOf(sent[Len(sent)]))

(***************************************************************************)
(* C3.  A packet-in installs a rule exactly when its packet has a TCP      *)
(* header to port 80, 443 or 8080; the rule has priority 1, table 0 and    *)
(* matches the event's ingress port, ethertype IPv4, protocol TCP and the  *)
(* packet's destination port; a packet-in installs at most one rule.       *)
(***************************************************************************)
C3_RuleIffClassifiedTcp ==
    IsPacketIn =>
        /\ (FlowModsSent # <<>>)
             <=> (ev.pkt.tcp_pkt /\ ev.pkt.dst_port \in {80, 443, 8080})
        /\ Len(FlowModsSent) <= 1
        /\ \A i \in 1..Len(FlowModsSent) :
             /\ FlowModsSent[i].datapath = ev.dpid
             /\ FlowModsSent[i].priority = 1
             /\ FlowModsSent[i].table_id = 0
             /\ FlowModsSent[i].match
                  = {<<"in_port", ev.in_port>>, <<"eth_type", 2048>>,
                     <<"ip_proto", 6>>, <<"tcp_dst", ev.pkt.dst_port>>}

\* a packet to port 8080 arriving on port 2 had its rule installed
C3_Witness ==
    /\ IsPacketIn
    /\ ev.pkt.tcp_pkt /\ ev.pkt.dst_port = 8080 /\ ev.in_port = 2
    /\ Len(FlowModsSent) = 1

(***************************************************************************)
(* C4.  A packet-in whose ethertype is neither IPv4 nor ARP sends the      *)
(* flood-only packet-out and nothing else: no rule is installed.           *)
(***************************************************************************)
C4_OtherEthertypeFloodOnly ==
    (IsPacketIn /\ ev.pkt.ethertype \notin {2048, 2054}) =>
        /\ Len(sent) = 1
        /\ IsPacketOut(sent[1])
        /\ Len(sent[1].actions) = 1
        /\ IsFlood(sent[1].actions[1])

(***************************************************************************)
(* C5.  An ARP packet-in leaves every switch's PacketCounter as it was and *)
(* sends exactly one message: a packet-out to the event's switch with the  *)
(* single flood action, OFP_NO_BUFFER, the packet's bytes and the event's  *)
(* ingress port.                                                           *)
(***************************************************************************)
C5_ArpFloodOnly ==
    [][ (ev'.type = "EventOFPPacketIn" /\ ev'.pkt.ethertype = 2054) =>
          /\ packet_counter' = packet_counter
          /\ sent' = << [type |-> "OFPPacketOut", datapath |-> ev'.dpid,
                         buffer_id |-> "OFP_NO_BUFFER", in_port |-> ev'.in_port,
                         actions |-> << [type |-> "OFPActionOutput",
                                         port |-> "OFPP_FLOOD",
                                         max_len |-> "OFPCML_MAX"] >>,
                         data |-> <<ev'.pkt>>] >> ]_vars

\* a buffered ARP packet-in was flooded on a switch that has counted packets
C5_Witness ==
    /\ IsPacketIn
    /\ ev.pkt.ethertype = 2054
    /\ ev.buffer_id = "buffer_7"
    /\ Counter(packet_counter, ev.dpid) = 2
    /\ Len(sent) = 1

(***************************************************************************)
(* C6.  A TCP packet-in to a port other than 80, 443 and 8080 installs no  *)
(* rule and carries no obfuscation action, whatever the counter is.        *)
(***************************************************************************)
C6_UnclassifiedNeverObfuscated ==
    (IsPacketIn /\ ev.pkt.tcp_pkt /\ ev.pkt.dst_port \notin {80, 443, 8080}) =>
        /\ FlowModsSent = <<>>
        /\ \A i \in 1..Len(sent) : ~HasObfuscation(ActionsOf(sent[i]))

\* a packet to port 22 was handled on a switch whose counter stood at 99
C6_Witness ==
    /\ IsPacketIn
    /\ ev.pkt.ip_pkt /\ ev.pkt.tcp_pkt /\ ev.pkt.dst_port = 22
    /\ Counter(packet_counter, ev.dpid) = 99
    /\ Len(sent) = 1

(***************************************************************************)
(* C7.  Every action list of a packet-in is: the pair [source rewrite,     *)
(* hop-limit rewrite] or nothing, then at most one destination rewrite,    *)
(* then the flood action, last.  The IPv4 TCP packet to port 443 that      *)
(* takes the counter to 100 gets [source rewrite, hop-limit rewrite,       *)
(* destination rewrite to 172.16.0.20, flood] and a rule at priority 1.    *)
(***************************************************************************)
ActionListShape(actions) ==
    \E o \in {0, 2}, r \in {0, 1} :
        /\ Len(actions) = o + r + 1
        /\ (o = 2) => (IsSetField(actions[1], "eth_src")
                        /\ IsSetField(actions[2], "ip_ttl"))
        /\ (r = 1) => IsSetField(actions[o + 1], "ipv4_dst")
        /\ IsFlood(actions[Len(actions)])

C7_ActionListShape ==
    IsPacketIn =>
        /\ \A i \in 1..Len(sent) : ActionListShape(ActionsOf(sent[i]))
        /\ (/\ ev.pkt.ip_pkt /\ ev.pkt.tcp_pkt /\ ev.pkt.dst_port = 443
            /\ Counter(packet_counter, ev.dpid) = 100) =>
             /\ Len(PacketOutsSent) = 1
             /\ LET actions == PacketOutsSent[1].actions
                IN  /\ Len(actions) = 4
                    /\ IsSetField(actions[1], "eth_src")
                    /\ IsSetField(actions[2], "ip_ttl")
                    /\ actions[3] = [type |-> "OFPActionSetField",
                                     field |-> "ipv4_dst", value |-> "172.16.0.20"]
                    /\ IsFlood(actions[4])
             /\ Len(FlowModsSent) = 1
             /\ FlowModsSent[1].priority = 1

\* the packet to port 443 that took the counter to 100 was handled
C7_Witness ==
    /\ IsPacketIn
    /\ ev.pkt.ip_pkt /\ ev.pkt.tcp_pkt /\ ev.pkt.dst_port = 443
    /\ Counter(packet_counter, ev.dpid) = 100
    /\ Len(sent) = 2

(***************************************************************************)
(* C8.  Every packet-in ends with exactly one packet-out, sent to the      *)
(* switch of the event, whose action list contains the flood action; the   *)
(* handler sends nothing to any other switch.                              *)
(***************************************************************************)
C8_OnePacketOut ==
    IsPacketIn =>
        /\ Len(PacketOutsSent) = 1
        /\ PacketOutsSent[1].datapath = ev.dpid
        /\ PacketOutsSent[1].in_port = ev.in_port
        /\ \E i \in 1..Len(PacketOutsSent[1].actions) :
             IsFlood(PacketOutsSent[1].actions[i])
        /\ \A i \in 1..Len(sent) : sent[i].datapath = ev.dpid

\* a classified packet was emitted after its rule was installed
C8_Witness ==
    /\ IsPacketIn
    /\ ev.pkt.tcp_pkt /\ ev.pkt.dst_port = 80
    /\ Len(FlowModsSent) = 1
    /\ Len(PacketOutsSent) = 1

(***************************************************************************)
(* C9.  An event on switch X leaves the counter of every other switch as   *)
(* it was, entry or no entry, and the decision taken for a packet of X is  *)
(* fixed by X's own counter and the packet: it is obfuscated exactly when  *)
(* it is an IPv4 TCP packet to port 80 or 443 and X's counter before it,   *)
(* plus one, is a multiple of 100.                                         *)
(***************************************************************************)
C9_CountersIndependent ==
    [][ (ev'.type # "None") =>
          /\ \A d \in DPIDs \ {ev'.dpid} :
               /\ (d \in DOMAIN packet_counter') <=> (d \in DOMAIN packet_counter)
               /\ Counter(packet_counter', d) = Counter(packet_counter, d)
          /\ (ev'.type = "EventOFPPacketIn") =>
               (HasObfuscation(ActionsOf(sent'[Len(sent')]))
                  <=> (/\ IsHttpOverIPv4(ev'.pkt)
                       /\ (Counter(packet_counter, ev'.dpid) + 1) % 100 = 0)) ]_vars

\* switch 1 reached its 100th counted packet with switch 2's packets interleaved
C9_Witness ==
    /\ IsPacketIn
    /\ ev.dpid = 1
    /\ Counter(packet_counter, 1) = 100
    /\ Counter(packet_counter, 2) = 1
    /\ HasObfuscation(ActionsOf(sent[Len(sent)]))

(***************************************************************************)
(* C10.  The handler of a switch's connection sends the table-miss rule    *)
(* (priority 0, table 0, empty match, one action: output to the            *)
(* controller without buffering); the first message a switch is ever sent  *)
(* is that rule, so it precedes every priority-1 rule and every packet-out *)
(* of the switch; every rule a packet-in installs has a priority above 0.  *)
(***************************************************************************)
TableMissRule(dpid) ==
    [type |-> "OFPFlowMod", datapath |-> dpid, priority |-> 0, table_id |-> 0,
     match |-> {},
     instructions |-> << [type |-> "OFPIT_APPLY_ACTIONS",
                          actions |-> << [type |-> "OFPActionOutput",
                                          port |-> "OFPP_CONTROLLER",
                                          max_len |-> "OFPCML_NO_BUFFER"] >>] >>]

C10_TableMissFirst ==
    /\ \A d \in DPIDs : first_sent[d] \in {<<>>, <<TableMissRule(d)>>}
    /\ (ev.type = "EventOFPSwitchFeatures") => sent = <<TableMissRule(ev.dpid)>>
    /\ IsPacketIn =>
         /\ first_sent[ev.dpid] = <<TableMissRule(ev.dpid)>>
         /\ \A i \in 1..Len(sent) : sent[i] # TableMissRule(ev.dpid)
         /\ \A i \in 1..Len(FlowModsSent) : FlowModsSent[i].priority > 0

\* a priority-1 rule was installed on a switch after its table-miss rule
C10_Witness ==
    /\ IsPacketIn
    /\ Len(FlowModsSent) = 1
    /\ FlowModsSent[1].priority = 1
    /\ first_sent[ev.dpid] = <<TableMissRule(ev.dpid)>>

(***************************************************************************)
(* C14.  The action list of a packet-in holds a destination rewrite        *)
(* exactly when the packet has an IPv4 header and a TCP header to port 80, *)
(* 443 or 8080, and then exactly one, to 172.16.0.10, 172.16.0.20 or       *)
(* 172.16.0.30 in that order of ports; a packet with another port, without *)
(* a TCP header or without an IPv4 header gets the action list [flood].    *)
(***************************************************************************)
BackendOf(port) ==
    IF port = 80 THEN "172.16.0.10"
    ELSE IF port = 443 THEN "172.16.0.20"
    ELSE "172.16.0.30"

DstRewritesIn(actions) ==
    { i \in 1..Len(actions) : IsSetField(actions[i], "ipv4_dst") }

C14_DestinationRewrite ==
    (IsPacketIn /\ ev.pkt.ethertype # 2054) =>
        LET classified == ev.pkt.tcp_pkt /\ ev.pkt.dst_port \in {80, 443, 8080}
        IN  \A i \in 1..Len(sent) :
              LET actions == ActionsOf(sent[i])
              IN  /\ (DstRewritesIn(actions) # {}) <=> (classified /\ ev.pkt.ip_pkt)
                  /\ Cardinality(DstRewritesIn(actions)) <= 1
                  /\ \A j \in DstRewritesIn(actions) :
                       actions[j].value = BackendOf(ev.pkt.dst_port)
                  /\ (~classified \/ ~ev.pkt.ip_pkt) =>
                       (Len(actions) = 1 /\ IsFlood(actions[1]))

\* a packet to port 8080 was sent on to the third backend
C14_Witness ==
    /\ IsPacketIn
    /\ ev.pkt.ip_pkt /\ ev.pkt.tcp_pkt /\ ev.pkt.dst_port = 8080
    /\ Len(sent) = 2
    /\ \E j \in 1..Len(sent[2].actions) :
         sent[2].actions[j] = [type |-> "OFPActionSetField", field |-> "ipv4_dst",
                               value |-> "172.16.0.30"]

(***************************************************************************)
(* C15.  A packet-in that installs a rule sends exactly two messages: the  *)
(* rule first, then the packet-out, and the two carry the same action      *)
(* list, generated values included; no packet-in installs two rules.       *)
(***************************************************************************)
C15_RuleThenSamePacketOut ==
    IsPacketIn =>
        /\ Len(FlowModsSent) <= 1
        /\ (FlowModsSent # <<>>) =>
             /\ Len(sent) = 2
             /\ IsFlowMod(sent[1])
             /\ IsPacketOut(sent[2])
             /\ Len(sent[1].instructions) = 1
             /\ sent[1].instructions[1].actions = sent[2].actions

\* an obfuscated packet had its rule installed and was then emitted
C15_Witness ==
    /\ IsPacketIn
    /\ Len(sent) = 2
    /\ IsFlowMod(sent[1])
    /\ HasObfuscation(sent[2].actions)

(***************************************************************************)
(* C18.  The packet-out of a non-ARP packet-in carries the event's buffer  *)
(* reference and ingress port, and the packet's bytes exactly when the     *)
(* event's buffer reference is OFP_NO_BUFFER.                              *)
(***************************************************************************)
C18_BufferOrBytes ==
    (IsPacketIn /\ ev.pkt.ethertype # 2054) =>
        /\ Len(PacketOutsSent) = 1
        /\ PacketOutsSent[1].buffer_id = ev.buffer_id
        /\ PacketOutsSent[1].in_port = ev.in_port
        /\ (ev.buffer_id = "OFP_NO_BUFFER") => PacketOutsSent[1].data = <<ev.pkt>>
        /\ (ev.buffer_id # "OFP_NO_BUFFER") => PacketOutsSent[1].data = <<>>

\* a buffered packet was emitted by reference
C18_Witness ==
    /\ IsPacketIn
    /\ ev.pkt.ethertype = 2048
    /\ ev.buffer_id = "buffer_7"
    /\ Len(PacketOutsSent) = 1
    /\ PacketOutsSent[1].data = <<>>

(***************************************************************************)
(* C12.  For every base in {64, 128, 255} and offset in -2..2 the hop      *)
(* limit generated is min(255, max(1, base + offset)); the results are     *)
(* exactly 62..66, 126..130 and 253..255; every hop-limit rewrite sent     *)
(* carries the value so computed from the outcomes drawn, in 1..255.       *)
(***************************************************************************)
ClampedHopLimit(x) == IF x < 1 THEN 1 ELSE IF x > 255 THEN 255 ELSE x

HopLimitTable ==
    /\ \A base \in {64, 128, 255}, offset \in {0 - 2, 0 - 1, 0, 1, 2} :
         get_random_ttl(base, offset) = ClampedHopLimit(base + offset)
    /\ { get_random_ttl(base, offset) :
           base \in {64, 128, 255}, offset \in {0 - 2, 0 - 1, 0, 1, 2} }
         = (62..66) \cup (126..130) \cup (253..255)

C12_HopLimitRange ==
    /\ HopLimitTable
    /\ \A i \in 1..Len(sent) :
         \A j \in 1..Len(ActionsOf(sent[i])) :
            LET a == ActionsOf(sent[i])[j]
            IN  IsSetField(a, "ip_ttl") =>
                  /\ Len(rand) = 5
                  /\ rand[4] \in {64, 128, 255}
                  /\ rand[5] \in (0 - 2)..2
                  /\ a.value = ClampedHopLimit(rand[4] + rand[5])
                  /\ a.value \in 1..255
                  /\ a.value \in (62..66) \cup (126..130) \cup (253..255)

\* base 255 and offset +2 were drawn and the hop limit written is 255
C12_Witness ==
    /\ IsPacketIn
    /\ Len(rand) = 5
    /\ rand[4] = 255 /\ rand[5] = 2
    /\ \E j \in 1..Len(ActionsOf(sent[1])) :
         ActionsOf(sent[1])[j] = [type |-> "OFPActionSetField", field |-> "ip_ttl",
                                  value |-> 255]

(***************************************************************************)
(* C13.  The link address generated has six octets, each written as two    *)
(* hexadecimal digits; the first is 0x02, locally-administered bit set and *)
(* group bit clear, the second and third are 0x00 and the last three are   *)
(* the three outcomes drawn, each in 0..255; every source rewrite sent     *)
(* carries such an address.                                                *)
(***************************************************************************)
HexDigitValue(c) == (CHOOSE k \in 1..16 : HexDigits[k] = c) - 1

\* the octet a group of the address denotes
OctetOf(group) == HexDigitValue(group[1]) * 16 + HexDigitValue(group[2])

IsLocalUnicastAddress(mac) ==
    /\ Len(mac) = 6
    /\ \A i \in 1..6 :
         /\ Len(mac[i]) = 2
         /\ \A k \in 1..2 : \E d \in 1..16 : HexDigits[d] = mac[i][k]
    /\ OctetOf(mac[1]) = 2
    /\ (OctetOf(mac[1]) \div 2) % 2 = 1
    /\ OctetOf(mac[1]) % 2 = 0
    /\ OctetOf(mac[2]) = 0
    /\ OctetOf(mac[3]) = 0
    /\ \A i \in 4..6 : OctetOf(mac[i]) \in 0..255

\* every value of each free octet, the other two at an end of their range
LinkAddressTable ==
    \A r \in 0..255, q \in {0, 255} :
        /\ IsLocalUnicastAddress(generate_random_mac(r, q, q))
        /\ IsLocalUnicastAddress(generate_random_mac(q, r, q))
        /\ IsLocalUnicastAddress(generate_random_mac(q, q, r))
        /\ OctetOf(generate_random_mac(r, q, q)[4]) = r
        /\ OctetOf(generate_random_mac(q, r, q)[5]) = r
        /\ OctetOf(generate_random_mac(q, q, r)[6]) = r

C13_LinkAddressPrefix ==
    /\ LinkAddressTable
    /\ \A i \in 1..Len(sent) :
         \A j \in 1..Len(ActionsOf(sent[i])) :
            LET a == ActionsOf(sent[i])[j]
            IN  IsSetField(a, "eth_src") =>
                  /\ IsLocalUnicastAddress(a.value)
                  /\ Len(rand) = 5
                  /\ \A k \in 1..3 : OctetOf(a.value[3 + k]) = rand[k]

\* the address 02:00:00:ff:00:ff was written into a rule
C13_Witness ==
    /\ IsPacketIn
    /\ Len(sent) = 2
    /\ IsFlowMod(sent[1])
    /\ \E j \in 1..Len(ActionsOf(sent[1])) :
         LET a == ActionsOf(sent[1])[j]
         IN  /\ IsSetField(a, "eth_src")
             /\ a.value = << <<"0", "2">>, <<"0", "0">>, <<"0", "0">>,
                             <<"f", "f">>, <<"0", "0">>, <<"f", "f">> >>

(***************************************************************************)
(* C17.  What a packet-in does is fixed by the counter and the event but   *)
(* for the values generated: the counter it leaves is a function of the    *)
(* counter before and the packet, and the messages it sends, once the      *)
(* generated address and hop limit are blanked, are those of the run that  *)
(* draws 0, 0, 0, 64, 0 from the random source; outcomes are drawn exactly *)
(* when the packet is obfuscated and show only in the generated values.    *)
(***************************************************************************)
BlankGenerated(a) ==
    IF a.type = "OFPActionSetField"
    THEN IF a.field \in {"eth_src", "ip_ttl"}
         THEN [type |-> "OFPActionSetField", field |-> a.field]
         ELSE a
    ELSE a

BlankActions(actions) == [i \in 1..Len(actions) |-> BlankGenerated(actions[i])]

\* a message reduced to its kind, its fixed fields and its blanked action list
BlankMessage(m) ==
    IF IsFlowMod(m)
    THEN <<"OFPFlowMod", m.datapath, m.priority, m.table_id, m.match,
           BlankActions(m.instructions[1].actions)>>
    ELSE <<"OFPPacketOut", m.datapath, m.buffer_id, m.in_port, m.data,
           BlankActions(m.actions)>>

BlankMessages(msgs) == [i \in 1..Len(msgs) |-> BlankMessage(msgs[i])]

\* the messages of the last packet-in, had it drawn rnd where it drew at all
MessagesDrawing(rnd) ==
    LET service_id == classify(ev.pkt)
        obfuscate == /\ ObfuscationCandidate(ev.pkt, service_id)
                     /\ should_obfuscate(packet_counter, ev.dpid)
    IN  PacketInMessages(ev.dpid, ev.in_port, ev.pkt, ev.buffer_id, service_id,
                         PacketInActions(ev.pkt, service_id, obfuscate, rnd))

C17_TriggerDeterministic ==
    /\ [](  (IsPacketIn /\ ev.pkt.ethertype # 2054) =>
              /\ BlankMessages(sent) = BlankMessages(MessagesDrawing(<<0, 0, 0, 64, 0>>))
              /\ (rand # <<>>) <=> HasObfuscation(ActionsOf(sent[Len(sent)]))
              /\ (rand # <<>>) => sent = MessagesDrawing(rand)  )
    /\ [][ (ev'.type = "EventOFPPacketIn" /\ ev'.pkt.ethertype # 2054) =>
             packet_counter' =
                 IF ObfuscationCandidate(ev'.pkt, classify(ev'.pkt))
                 THEN CounterIncremented(packet_counter, ev'.dpid)
                 ELSE packet_counter ]_vars

\* a packet was obfuscated with outcomes other than those of the reference run
C17_Witness ==
    /\ IsPacketIn
    /\ rand = <<255, 0, 255, 128, 0 - 2>>
    /\ Len(sent) = 2
    /\ HasObfuscation(ActionsOf(sent[1]))

(***************************************************************************)
(* C16.  No switch has a counter entry at start; over connect, packet-in,  *)
(* port-status and stats-reply events an entry, once there, stays and      *)
(* never decreases; an entry appears with the value 0 + 1; and a counter   *)
(* changes only in a packet-in of its own switch, by exactly +1.           *)
(***************************************************************************)
C16_CounterMonotonic ==
    /\ packet_counter = <<>>
    /\ [][ \A d \in DPIDs :
             /\ (d \in DOMAIN packet_counter) =>
                  /\ d \in DOMAIN packet_counter'
                  /\ packet_counter'[d] >= packet_counter[d]
             /\ (d \notin DOMAIN packet_counter /\ d \in DOMAIN packet_counter') =>
                  packet_counter'[d] = 1
             /\ (\/ (d \in DOMAIN packet_counter') # (d \in DOMAIN packet_counter)
                 \/ Counter(packet_counter', d) # Counter(packet_counter, d)) =>
                  /\ ev'.type = "EventOFPPacketIn"
                  /\ ev'.dpid = d
                  /\ Counter(packet_counter', d) = Counter(packet_counter, d) + 1
         ]_vars

\* a stats reply was handled on a switch that had counted two packets
C16_Witness ==
    /\ ev.type = "EventOFPFlowStatsReply"
    /\ Len(ev.received) = 1
    /\ Counter(packet_counter, ev.dpid) = 2
    /\ \A d \in DPIDs : dispatcher[d] = "MAIN_DISPATCHER"

(***************************************************************************)
(* C19.  For a stats reply of n entries the handler logs, under the three  *)
(* header records, min(n, 10) entries of the reply, none twice, in         *)
(* non-increasing priority order, each of a priority at least that of      *)
(* every entry left out; it sends nothing, and it leaves the reply and the *)
(* counters as they were.                                                  *)
(***************************************************************************)
\* the packet_count logged in the i-th entry record: the place of the entry
\* in the reply
ReportedEntry(i) == logged[3 + i].args[2]

C19_TopTenByPriority ==
    /\ [](  (ev.type = "EventOFPFlowStatsReply") =>
              LET n == Len(ev.received)
                  k == Len(logged) - 3
              IN  /\ k = (IF n < 10 THEN n ELSE 10)
                  /\ \A i \in 1..k :
                       /\ ReportedEntry(i) \in 1..n
                       /\ logged[3 + i].args
                            = <<ev.received[ReportedEntry(i)].match,
                                ev.received[ReportedEntry(i)].packet_count,
                                ev.received[ReportedEntry(i)].byte_count,
                                ev.received[ReportedEntry(i)].duration_sec>>
                  /\ \A i, j \in 1..k : (i < j) =>
                       /\ ReportedEntry(i) # ReportedEntry(j)
                       /\ ev.received[ReportedEntry(i)].priority
                            >= ev.received[ReportedEntry(j)].priority
                  /\ \A i \in 1..k, u \in 1..n :
                       (\A j \in 1..k : ReportedEntry(j) # u) =>
                          ev.received[ReportedEntry(i)].priority
                            >= ev.received[u].priority
                  /\ ev.body = ev.received
                  /\ sent = <<>>  )
    /\ [][ (ev'.type = "EventOFPFlowStatsReply") =>
             packet_counter' = packet_counter ]_vars

\* of eleven entries the last, of priority 1, was reported and one of
\* priority 0 was left out
C19_Witness ==
    /\ ev.type = "EventOFPFlowStatsReply"
    /\ Len(ev.received) = 11
    /\ ev.received[1].priority = 0
    /\ ev.received[11].priority = 1
    /\ Len(logged) = 13
    /\ \E i \in 1..10 : ReportedEntry(i) = 11

====
